---- MODULE Spec2Model ----
(***************************************************************************)
(* Model of streamlit_app.py: the Kyushu temperature page.                 *)
(*                                                                         *)
(* Units.  Temperatures are integers in tenths of a degree Celsius (the    *)
(* API's resolution): 153 stands for 15.3.  Instants are integers in       *)
(* half-hours since 2024-01-01 00:00 Asia/Tokyo, so the hourly grid is     *)
(* 0, 2, 4, ... and the slider can also select instants between samples.   *)
(* Latitudes and longitudes are in 1/10000 of a degree.  Elevation is in   *)
(* tenths (temperature * 3000 = tenths * 300).                             *)
(***************************************************************************)
EXTENDS Integers, Sequences, FiniteSets, Bags

VARIABLES pc, cache, idx, weather_info, warnings, requests, last_resp,
          ret, hit, after_clear, memo_failed, df, selected_time, df_selected,
          temp, color

vars == <<pc, cache, idx, weather_info, warnings, requests, last_resp,
          ret, hit, after_clear, memo_failed, df, selected_time, df_selected,
          temp, color>>

pageVars == <<pc, cache, idx, weather_info, warnings, requests, last_resp,
              ret, hit, after_clear, memo_failed, df, selected_time, df_selected>>

-----------------------------------------------------------------------------
(* Bounds of the model.                                                    *)

\* Length of the hourly series a complete response carries.
MaxLen == 2
\* Seconds of wall-clock time one Tick lets pass.
TickSeconds == 300
\* How far (in tenths of a degree) the colour inputs extend below -5 C.
TempBelow == 120
\* How far (in tenths of a degree) the colour inputs extend above 35 C.
TempAbove == 120

-----------------------------------------------------------------------------
(* Static configuration.                                                   *)

\* The iteration order of the dict: its declaration order.
Cities == <<"Fukuoka", "Saga", "Nagasaki", "Kumamoto", "Oita", "Miyazaki", "Kagoshima">>

kyushu_capitals ==
    [c \in {Cities[i] : i \in 1..Len(Cities)} |->
        CASE c = "Fukuoka"   -> [lat |-> 335904, lon |-> 1304017]
          [] c = "Saga"      -> [lat |-> 332494, lon |-> 1302974]
          [] c = "Nagasaki"  -> [lat |-> 327450, lon |-> 1298739]
          [] c = "Kumamoto"  -> [lat |-> 327900, lon |-> 1307420]
          [] c = "Oita"      -> [lat |-> 332381, lon |-> 1316119]
          [] c = "Miyazaki"  -> [lat |-> 319110, lon |-> 1314240]
          [] c = "Kagoshima" -> [lat |-> 315600, lon |-> 1305580]]

CitySet == DOMAIN kyushu_capitals

\* ttl of the memo, in seconds.
ttl == 600

Min(a, b) == IF a <= b THEN a ELSE b
Max(a, b) == IF a >= b THEN a ELSE b
Abs(a) == IF a >= 0 THEN a ELSE -a

-----------------------------------------------------------------------------
(* temp_to_color                                                           *)

\* Variant: the normalisation without the clip.
clip_t_unclamped(tmp) == tmp + 50

\* np.clip((temp + 5) / 40, 0, 1), as the numerator of t over 400.
clip_t(tmp) == Min(Max(tmp + 50, 0), 400)

\* Numerators at which binary floating point puts 255 * (1 - abs(t - 0.5) * 2)
\* just below the exact integer (temp = -1.0, 27.0, 31.0), so int() yields one less.
FloatShortG == {40, 320, 360}
\* Numerators at which 255 * (1 - t) lands just below the exact integer (temp = 27.0).
FloatShortB == {320}

red_channel(tmp) == (255 * clip_t(tmp)) \div 400

green_channel(tmp) ==
    LET c == clip_t(tmp)
        exact == (255 * (400 - Abs(2 * c - 400))) \div 400
    IN  IF c \in FloatShortG THEN exact - 1 ELSE exact

\* Variant: b = int(255 * t), the red formula.
blue_channel_rising(tmp) == (255 * clip_t(tmp)) \div 400

blue_channel(tmp) ==
    LET c == clip_t(tmp)
        exact == (255 * (400 - c)) \div 400
    IN  IF c \in FloatShortB THEN exact - 1 ELSE exact

temp_to_color(tmp) == <<red_channel(tmp), green_channel(tmp), blue_channel(tmp), 180>>

\* df['Temperature'] * 3000, in tenths.
elevation(tmp) == tmp * 300

-----------------------------------------------------------------------------
(* The forecast API's answers.                                             *)

\* A time string of the hourly.time array: its layout and the hour it names.
\* "iso" is 2024-01-01T01:00, "spaced" is 2024-01-01 01:00:00, "garbage" is
\* text that names no date.
TimeStr(fmt, hour) == [fmt |-> fmt, hour |-> hour]

\* pd.to_datetime(t): both layouts parse to the same instant; text that is no
\* date raises.
pd_to_datetime(t) ==
    IF t.fmt \in {"iso", "spaced"}
    THEN [ok |-> TRUE, value |-> 2 * t.hour]
    ELSE [ok |-> FALSE, value |-> 0]

\* The temperature the API reports for the k-th hour: -8.0, 15.3, 38.6, ...
TempAt(k) == -80 + 233 * (k - 1)

GridTimes == [k \in 1..MaxLen |-> TimeStr("iso", k - 1)]
GridTemps == [k \in 1..MaxLen |-> TempAt(k)]

Body(times, temps) == [time |-> times, temperature_2m |-> temps]

Response(connected, status, is_json, has_hourly, body) ==
    [connected |-> connected, status |-> status, is_json |-> is_json,
     has_hourly |-> has_hourly, hourly |-> body]

\* The request never completes (DNS, refused connection, ...).
RespConnectionError == Response(FALSE, 0, FALSE, FALSE, Body(<<>>, <<>>))
\* The server answers 500.
RespHTTPError == Response(TRUE, 500, FALSE, FALSE, Body(<<>>, <<>>))
\* The server answers 304 with no body: raise_for_status lets it pass and
\* response.json raises.
RespNotModified == Response(TRUE, 304, FALSE, FALSE, Body(<<>>, <<>>))
\* 200 with a body that is not JSON.
RespNotJSON == Response(TRUE, 200, FALSE, FALSE, Body(<<>>, <<>>))
\* 200 with JSON that has no "hourly" object.
RespNoHourly == Response(TRUE, 200, TRUE, FALSE, Body(<<>>, <<>>))
\* The complete hourly grid.
RespFull == Response(TRUE, 200, TRUE, TRUE, Body(GridTimes, GridTemps))
\* The grid with text that is no date at position p.
RespBadTime(p) ==
    Response(TRUE, 200, TRUE, TRUE,
             Body([GridTimes EXCEPT ![p] = TimeStr("garbage", 0)], GridTemps))
\* The grid in the other layout, with one temperature fewer than times.
RespShort ==
    Response(TRUE, 200, TRUE, TRUE,
             Body([k \in 1..MaxLen |-> TimeStr("spaced", k - 1)],
                  SubSeq(GridTemps, 1, MaxLen - 1)))

\* What the API can answer to one GET: each way of failing before a sample
\* is read, the full series, the truncated one, and a series whose first or
\* whose last time is no date.
Responses ==
    {RespConnectionError, RespHTTPError, RespNotModified, RespNotJSON, RespNoHourly,
     RespFull, RespShort, RespBadTime(1), RespBadTime(MaxLen)}

NoResponse == Response(FALSE, -1, FALSE, FALSE, Body(<<>>, <<>>))

-----------------------------------------------------------------------------
(* fetch_weather_data: one iteration of the loop over kyushu_capitals.      *)

\* The dict appended for one (t, temp) pair.
Sample(city, t, tmp) ==
    [City |-> city, lat |-> kyushu_capitals[city].lat, lon |-> kyushu_capitals[city].lon,
     time |-> pd_to_datetime(t).value, Temperature |-> tmp]

\* Variant: weather_info.insert(0, ...) in place of append.
RECURSIVE append_samples_front(_, _, _, _, _)
append_samples_front(city, times, temps, k, info) ==
    IF k > Min(Len(times), Len(temps))
    THEN [info |-> info, raised |-> FALSE]
    ELSE IF ~pd_to_datetime(times[k]).ok
         THEN [info |-> info, raised |-> TRUE]
         ELSE append_samples_front(city, times, temps, k + 1,
                                   <<[City |-> city, lat |-> kyushu_capitals[city].lat,
                                      lon |-> kyushu_capitals[city].lon,
                                      time |-> pd_to_datetime(times[k]).value,
                                      Temperature |-> temps[k]]>> \o info)

\* for t, temp in zip(times, temps): weather_info.append(...), from pair k on.
\* The appends go straight to the shared list; a t that does not parse raises
\* out of the loop with the earlier appends already made.
RECURSIVE append_samples(_, _, _, _, _)
append_samples(city, times, temps, k, info) ==
    IF k > Min(Len(times), Len(temps))
    THEN [info |-> info, raised |-> FALSE]
    ELSE IF ~pd_to_datetime(times[k]).ok
         THEN [info |-> info, raised |-> TRUE]
         ELSE append_samples(city, times, temps, k + 1,
                             Append(info, Sample(city, times[k], temps[k])))

\* The try block for one city, given the API's answer: requests.get,
\* raise_for_status (which raises for 400 <= status < 600 only),
\* response.json, the two key lookups, the zip loop.
try_city(city, resp, info) ==
    IF ~resp.connected THEN [info |-> info, raised |-> TRUE]
    ELSE IF resp.status >= 400 /\ resp.status < 600 THEN [info |-> info, raised |-> TRUE]
    ELSE IF ~resp.is_json THEN [info |-> info, raised |-> TRUE]
    ELSE IF ~resp.has_hourly THEN [info |-> info, raised |-> TRUE]
    ELSE append_samples(city, resp.hourly.time, resp.hourly.temperature_2m, 1, info)

-----------------------------------------------------------------------------
(* The page script below the call.                                         *)

\* df['elevation'] = ...; df['color'] = ...: the two derived columns.
WithVisuals(r) ==
    [City |-> r.City, lat |-> r.lat, lon |-> r.lon, time |-> r.time,
     Temperature |-> r.Temperature, elevation |-> elevation(r.Temperature),
     color |-> temp_to_color(r.Temperature)]

derive(frame) == [i \in 1..Len(frame) |-> WithVisuals(frame[i])]

\* Variant: only the first row whose time equals t.
RECURSIVE select_time_first(_, _)
select_time_first(frame, t) ==
    IF frame = <<>> THEN <<>>
    ELSE IF Head(frame).time = t
         THEN <<Head(frame)>>
         ELSE select_time_first(Tail(frame), t)

\* Variant: df[df['time'] <= selected_time].
RECURSIVE select_time_upto(_, _)
select_time_upto(frame, t) ==
    IF frame = <<>> THEN <<>>
    ELSE IF Head(frame).time <= t
         THEN <<Head(frame)>> \o select_time_upto(Tail(frame), t)
         ELSE select_time_upto(Tail(frame), t)

\* df[df['time'] == selected_time]: the rows whose time equals t, in order.
RECURSIVE select_time(_, _)
select_time(frame, t) ==
    IF frame = <<>> THEN <<>>
    ELSE IF Head(frame).time = t
         THEN <<Head(frame)>> \o select_time(Tail(frame), t)
         ELSE select_time(Tail(frame), t)

Times(frame) == {frame[i].time : i \in 1..Len(frame)}
SetMin(S) == CHOOSE x \in S : \A y \in S : x <= y
SetMax(S) == CHOOSE x \in S : \A y \in S : x >= y

\* What st.slider lets the user pick: an instant from min_value to max_value.
slider_values(frame) == SetMin(Times(frame))..SetMax(Times(frame))

NoTime == -1
NoColor == <<>>

-----------------------------------------------------------------------------
(* The memo of st.cache_data(ttl=600).                                     *)

\* An entry keeps the returned value and the st.error elements the body
\* emitted, which are replayed to the page on every hit.
EmptyCache == [present |-> FALSE, value |-> <<>>, messages |-> <<>>, age |-> 0]

\* The lookup made when fetch_weather_data is called.
cache_hit(c) == c.present /\ c.age < ttl

\* The entry written when the function body returns.
cache_store(value, messages) ==
    [present |-> TRUE, value |-> value, messages |-> messages, age |-> 0]

\* Variant: clear() that leaves the entry in place.
cache_clear_keeps(c) == c

\* st.cache_data.clear()
cache_clear(c) == EmptyCache

\* Wall-clock time passing over the entry: at ttl seconds it is dropped.
cache_aged(c, seconds) ==
    IF c.age + seconds >= ttl THEN EmptyCache ELSE [c EXCEPT !.age = c.age + seconds]

Idle == {"start", "rendered", "crashed"}

-----------------------------------------------------------------------------
(* The page as a state machine.                                            *)

Init ==
    /\ pc = "start"
    /\ cache = EmptyCache
    /\ idx = 0
    /\ weather_info = <<>>
    /\ warnings = <<>>
    /\ requests = <<>>
    /\ last_resp = NoResponse
    /\ ret = <<>>
    /\ hit = FALSE
    /\ after_clear = FALSE
    /\ memo_failed = {}
    /\ df = <<>>
    /\ selected_time = NoTime
    /\ df_selected = <<>>
    /\ temp = 0
    /\ color = NoColor

\* A script run reaches df = fetch_weather_data() and the memo answers: a copy
\* of the stored value, the stored st.error elements shown again, no request.
CallHit ==
    /\ pc \in Idle
    /\ cache_hit(cache)
    /\ pc' = "page"
    /\ hit' = TRUE
    /\ after_clear' = FALSE
    /\ ret' = cache.value
    /\ df' = cache.value
    /\ warnings' = cache.messages
    /\ requests' = <<>>
    /\ selected_time' = NoTime
    /\ df_selected' = <<>>
    /\ UNCHANGED <<cache, idx, weather_info, last_resp, memo_failed, temp, color>>

\* A script run reaches the call and the memo has no live entry: the body starts.
CallMiss ==
    /\ pc \in Idle
    /\ ~cache_hit(cache)
    /\ pc' = "fetch"
    /\ hit' = FALSE
    /\ idx' = 1
    /\ weather_info' = <<>>
    /\ warnings' = <<>>
    /\ requests' = <<>>
    /\ df' = <<>>
    /\ ret' = <<>>
    /\ selected_time' = NoTime
    /\ df_selected' = <<>>
    /\ UNCHANGED <<cache, last_resp, after_clear, memo_failed, temp, color>>

\* One iteration of the for loop: the GET for Cities[idx] and its try/except.
FetchCity ==
    /\ pc = "fetch"
    /\ idx <= Len(Cities)
    /\ \E resp \in Responses :
          LET city == Cities[idx]
              out == try_city(city, resp, weather_info)
          IN  /\ requests' = Append(requests, city)
              /\ last_resp' = resp
              /\ weather_info' = out.info
              /\ warnings' = IF out.raised THEN Append(warnings, city) ELSE warnings
    /\ idx' = idx + 1
    /\ UNCHANGED <<pc, cache, ret, hit, after_clear, memo_failed, df, selected_time,
                   df_selected, temp, color>>

\* return pd.DataFrame(weather_info): the memo keeps the value, the page gets it.
FetchReturn ==
    /\ pc = "fetch"
    /\ idx > Len(Cities)
    /\ pc' = "page"
    /\ idx' = 0
    /\ last_resp' = NoResponse
    /\ cache' = cache_store(weather_info, warnings)
    /\ memo_failed' = {warnings[i] : i \in 1..Len(warnings)}
    /\ ret' = weather_info
    /\ df' = weather_info
    /\ after_clear' = FALSE
    /\ weather_info' = <<>>
    /\ UNCHANGED <<warnings, requests, hit, selected_time, df_selected, temp, color>>

\* The script from the derived columns to the map, with rows to show.
Render ==
    /\ pc = "page"
    /\ df # <<>>
    /\ \E t \in slider_values(df) :
          /\ selected_time' = t
          /\ df_selected' = select_time(derive(df), t)
    /\ df' = derive(df)
    /\ pc' = "rendered"
    /\ UNCHANGED <<cache, idx, weather_info, warnings, requests, last_resp, ret, hit,
                   after_clear, memo_failed, temp, color>>

\* The same script on a frame with no rows and no columns: df['Temperature']
\* raises KeyError and the run ends there.
RenderEmpty ==
    /\ pc = "page"
    /\ df = <<>>
    /\ pc' = "crashed"
    /\ UNCHANGED <<cache, idx, weather_info, warnings, requests, last_resp, ret, hit,
                   after_clear, memo_failed, df, selected_time, df_selected, temp, color>>

\* The refresh button, which exists only on a page that rendered:
\* st.cache_data.clear(); st.rerun().
ClickRefresh ==
    /\ pc = "rendered"
    /\ cache' = cache_clear(cache)
    /\ memo_failed' = {}
    /\ after_clear' = TRUE
    /\ pc' = "start"
    /\ df' = <<>>
    /\ selected_time' = NoTime
    /\ df_selected' = <<>>
    /\ warnings' = <<>>
    /\ requests' = <<>>
    /\ UNCHANGED <<idx, weather_info, last_resp, ret, hit, temp, color>>

\* Wall-clock time passes while the page is at rest.
Tick ==
    /\ pc \in Idle
    /\ cache.present
    /\ cache.age < ttl
    /\ cache' = cache_aged(cache, TickSeconds)
    /\ memo_failed' = IF cache'.present THEN memo_failed ELSE {}
    /\ UNCHANGED <<pc, idx, weather_info, warnings, requests, last_resp, ret, hit,
                   after_clear, df, selected_time, df_selected, temp, color>>

Next ==
    \/ CallHit
    \/ CallMiss
    \/ FetchCity
    \/ FetchReturn
    \/ Render
    \/ RenderEmpty
    \/ ClickRefresh
    \/ Tick

Spec == Init /\ [][Next]_vars

-----------------------------------------------------------------------------
(* temp_to_color on its own: every input of the domain, then the call.     *)

TempDomain == (-50 - TempBelow)..(350 + TempAbove)

ColorInit ==
    /\ pc = "start"
    /\ cache = EmptyCache
    /\ idx = 0
    /\ weather_info = <<>>
    /\ warnings = <<>>
    /\ requests = <<>>
    /\ last_resp = NoResponse
    /\ ret = <<>>
    /\ hit = FALSE
    /\ after_clear = FALSE
    /\ memo_failed = {}
    /\ df = <<>>
    /\ selected_time = NoTime
    /\ df_selected = <<>>
    /\ temp \in TempDomain
    /\ color = NoColor

\* color = temp_to_color(temp)
ApplyColor ==
    /\ color = NoColor
    /\ color' = temp_to_color(temp)
    /\ UNCHANGED <<temp, pageVars>>

\* The next row's temperature.
NextTemp ==
    /\ color # NoColor
    /\ temp' \in TempDomain
    /\ color' = NoColor
    /\ UNCHANGED pageVars

ColorNext ==
    \/ ApplyColor
    \/ NextTemp

ColorSpec == ColorInit /\ [][ColorNext]_vars

-----------------------------------------------------------------------------
(* Vocabulary of the properties.                                           *)

Range(seq) == {seq[i] : i \in 1..Len(seq)}
CitiesIn(frame) == {frame[i].City : i \in 1..Len(frame)}
Warned == Range(warnings)
NoDuplicates(seq) == \A i, j \in 1..Len(seq) : seq[i] = seq[j] => i = j

\* The fetch body has just returned to the page (no memo answer).
Returned == pc = "page" /\ ~hit
\* This step is a call of fetch_weather_data.
CallStep == pc \in Idle /\ pc' \in {"page", "fetch"}
\* The memo holds an entry younger than ttl that nothing has invalidated.
WithinWindow == cache.present /\ cache.age < ttl

\* The rows of frame for one city, in frame order.
RowsOf(frame, c) == SelectSeq(frame, LAMBDA r : r.City = c)
TimesOf(frame, c) == [i \in 1..Len(RowsOf(frame, c)) |-> RowsOf(frame, c)[i].time]

\* A frame as a multiset of rows.
BagOf(frame) == [r \in Range(frame) |-> Cardinality({i \in 1..Len(frame) : frame[i] = r})]

RECURSIVE UnionOfSelections(_, _)
UnionOfSelections(frame, ts) ==
    IF ts = {} THEN EmptyBag
    ELSE LET t == CHOOSE x \in ts : TRUE
         IN  BagOf(select_time(frame, t)) (+) UnionOfSelections(frame, ts \ {t})

\* Every location of the frame carries the same timestamps, each once.
CommonGrid(frame) ==
    \A c, d \in CitiesIn(frame) :
        /\ TimesOf(frame, c) = TimesOf(frame, d)
        /\ NoDuplicates(TimesOf(frame, c))

-----------------------------------------------------------------------------
(* The claims.                                                             *)

\* C1: whatever subset of the 7 locations fails, the call returns having
\* requested all 7 in order, the returned Dataset holds records for exactly
\* the locations that did not fail, and each failed location has exactly
\* one warning.
C1_FailureIsolation ==
    Returned =>
        /\ requests = Cities
        /\ NoDuplicates(warnings)
        /\ CitiesIn(ret) = CitySet \ Warned

\* C2: a location that failed at any step, a timestamp in the middle of its
\* series included, has no record in the returned Dataset.
C2_FailedLocationExcluded ==
    Returned => \A i \in 1..Len(ret) : ret[i].City \notin Warned

\* C3: a call within the memo window with no invalidation since the entry
\* was written returns the Dataset the previous call returned and issues no
\* request; the first call after the refresh button cleared the memo runs
\* the body, which requests all 7 locations.
C3_CacheBehaviour ==
    /\ [][CallStep /\ WithinWindow => pc' = "page" /\ df' = ret /\ ret' = ret
                                       /\ requests' = <<>>]_vars
    /\ [][CallStep /\ after_clear => pc' = "fetch"]_vars
    /\ [](Returned => requests = Cities)

C3_Witness ==
    /\ pc = "page"
    /\ hit
    /\ cache.age > 0
    /\ df # <<>>
    /\ requests = <<>>

\* C4: when all 7 locations fail, the page run that follows completes and
\* renders instead of raising.
C4_TotalFailureRenders ==
    (Len(warnings) = Len(Cities) /\ pc \in {"rendered", "crashed"}) => pc = "rendered"

\* C5: when the N locations of the Dataset all carry the same M timestamps,
\* the filter returns for each of them exactly N records, one per location,
\* and the M selections together are the Dataset as a multiset.
C5_FilterRoundTrip ==
    (pc \in {"page", "rendered"} /\ CommonGrid(df)) =>
        /\ \A t \in Times(df) :
              /\ Len(select_time(df, t)) = Cardinality(CitiesIn(df))
              /\ CitiesIn(select_time(df, t)) = CitiesIn(df)
        /\ UnionOfSelections(df, Times(df)) = BagOf(df)

C5_Witness ==
    /\ pc = "rendered"
    /\ CommonGrid(df)
    /\ Cardinality(CitiesIn(df)) >= 3
    /\ Cardinality(Times(df)) >= 2
    /\ Warned # {}

\* C6: the rendered selection is exactly the rows whose time equals the
\* selected time, none when no row carries it, and rendering raises
\* nothing and warns of nothing.
C6_SelectionExact ==
    /\ [](pc = "rendered" =>
            /\ df_selected = SelectSeq(df, LAMBDA r : r.time = selected_time)
            /\ (selected_time \notin Times(df) => df_selected = <<>>))
    /\ [][pc = "page" /\ df # <<>> => pc' = "rendered" /\ warnings' = warnings]_vars

C6_Witness ==
    /\ pc = "rendered"
    /\ selected_time \notin Times(df)
    /\ df_selected = <<>>
    /\ df # <<>>

\* C7: temp_to_color is [0, 0, 255, 180] for every temp <= -5 and
\* [255, 0, 0, 180] for every temp >= 35.
C7_Saturation ==
    color # NoColor =>
        /\ (temp <= -50 => color = <<0, 0, 255, 180>>)
        /\ (temp >= 350 => color = <<255, 0, 0, 180>>)

C7_Witness ==
    /\ color # NoColor
    /\ temp > 350

\* C8: for a <= b red does not decrease and blue does not increase, every
\* channel is an integer in 0..255 and alpha is 180.
C8_Monotone ==
    color # NoColor =>
        /\ \A k \in 1..3 : color[k] \in 0..255
        /\ color[4] = 180
        /\ \A b \in TempDomain :
              temp <= b => /\ color[1] <= temp_to_color(b)[1]
                           /\ color[3] >= temp_to_color(b)[3]

C8_Witness ==
    /\ color # NoColor
    /\ temp = 270
    /\ color[3] = 50

\* C9: each loop iteration requests the next city of the declaration order
\* and appends that city's samples, in the order of the API's arrays, after
\* everything already collected; the returned Dataset is what the loop
\* collected and the 7 requests were issued in declaration order.
C9_Ordering ==
    /\ [][pc = "fetch" /\ idx' = idx + 1 =>
            LET n == Len(weather_info' ) - Len(weather_info)
                body == last_resp'.hourly
            IN  /\ requests' = Append(requests, Cities[idx])
                /\ n >= 0
                /\ (warnings' = warnings =>
                        n = Min(Len(body.time), Len(body.temperature_2m)))
                /\ SubSeq(weather_info', 1, Len(weather_info)) = weather_info
                /\ \A k \in 1..n :
                      LET r == weather_info'[Len(weather_info) + k]
                      IN  /\ r.City = Cities[idx]
                          /\ r.time = pd_to_datetime(body.time[k]).value
                          /\ r.Temperature = body.temperature_2m[k]]_vars
    /\ [][pc = "fetch" /\ pc' = "page" => ret' = weather_info]_vars
    /\ [](Returned =>
            /\ requests = Cities
            /\ \A i, j \in 1..Len(ret) :
                  i <= j => \E a, b \in 1..Len(Cities) :
                               a <= b /\ Cities[a] = ret[i].City /\ Cities[b] = ret[j].City)

C9_Witness ==
    /\ Returned
    /\ Cardinality(CitiesIn(ret)) = Len(Cities)
    /\ Len(ret) > Len(Cities)

\* C10: a retrieval in which locations failed is memoized as it is; while
\* its entry lives every call returns that same Dataset, which has no record
\* of the failed locations, and no request is issued, so a failed location
\* is requested again only once the entry has expired or been cleared.
C10_FailureMemoized ==
    /\ [][pc = "fetch" /\ pc' = "page" =>
            /\ cache'.present
            /\ cache'.value = ret'
            /\ memo_failed' = Warned]_vars
    /\ [][CallStep /\ WithinWindow /\ memo_failed # {} =>
            /\ pc' = "page"
            /\ df' = ret
            /\ CitiesIn(df') \cap memo_failed = {}
            /\ requests' = <<>>]_vars
    /\ [][(\E c \in CitySet : requests' = Append(requests, c)) => ~WithinWindow]_vars

====
